---- MODULE Spec2Model ----
(***************************************************************************)
(* Air monitor: one sensor_loop thread polls the AHT20 and the PMSA003I,   *)
(* keeps the last HISTORY_SECONDS of readings in `history`, the newest one *)
(* in `last_row`, appends every reading to the session CSV, and the Flask  *)
(* handlers api_data / api_history read both under history_lock.           *)
(*                                                                         *)
(* Units: timestamps are whole seconds, temperatures, humidity and PM      *)
(* concentrations are tenths (12.0 ug/m3 is 120).                          *)
(***************************************************************************)
EXTENDS Integers, Sequences, FiniteSets, TLC

\* ------------------------------------------------------------------ config
HISTORY_SECONDS == 15 * 60

\* ------------------------------------------------------------------ bounds
\* number of iterations of sensor_loop that are explored
MaxPolls == 3
\* number of injected faults (raising sensor reads, failing CSV writes)
MaxFaults == 1
\* largest PM2.5 value (tenths of ug/m3) the category function is checked on
MaxPM25 == 2600

\* values time.time() may return; the wall clock may also step backwards
Timestamps == {0, 300, 1200}
\* AHT20 samples: temperature (tenths of a degree C), humidity (tenths of %)
TempSamples == {220}
HumiditySamples == {450}
\* Python's None for a PM field the sensor did not report
NonePM == -1
\* "pm25 standard" values (tenths) drawn while the whole program runs
PM25Samples == {100}
\* "pm25 standard" values drawn when only the category is under test
PM25Range == {NonePM} \cup (0..MaxPM25)
\* "pm10 standard" and "pm100 standard" values
PM1Samples == {50}
PM10Samples == {150}

\* the Flask worker threads serving requests
Handlers == {"h1", "h2"}
Endpoints == {"data", "history"}

\* Python's None where a reading or a response is expected
None == [none |-> TRUE]

VARIABLES
    history,        \* module-level list of readings
    history_lock,   \* "free", "sensor_loop" or the handler holding the lock
    last_row,       \* module-level latest reading, or None
    pc,             \* position of the sensor_loop thread
    polls,          \* iterations of sensor_loop started so far
    aht,            \* read_sensors_once locals temp_c / humidity, or None
    row,            \* sensor_loop local `row` (kept from the last success)
    csv,            \* the session file: exists, header written, data rows
    hpc,            \* position of each handler thread
    hrow,           \* api_data local `row`
    hpts,           \* api_history local `pts`
    recorded,       \* ghost: every reading appended to `history`, in order
    committed,      \* ghost: (history, last_row) as sensor_loop last left them
                    \*        when it released the lock
    read_ok,        \* ghost: some read_sensors_once call has returned
    read_errors,    \* ghost: number of read_sensors_once calls that raised
    csv_errors      \* ghost: number of append_to_csv calls that failed

vars == <<history, history_lock, last_row, pc, polls, aht, row, csv,
          hpc, hrow, hpts, recorded, committed, read_ok, read_errors,
          csv_errors>>

sensor_vars == <<pc, polls, aht, row>>
store_vars == <<history, history_lock, last_row>>
handler_vars == <<hpc, hrow, hpts>>
ghost_vars == <<recorded, committed, read_ok, read_errors, csv_errors>>

\* ------------------------------------------------------------ pure helpers
RECURSIVE SelectSeqBy(_, _)
\* [r for r in s if r["ts"] >= cutoff]
SelectSeqBy(s, cutoff) ==
    IF s = <<>> THEN <<>>
    ELSE IF Head(s).ts >= cutoff
         THEN <<Head(s)>> \o SelectSeqBy(Tail(s), cutoff)
         ELSE SelectSeqBy(Tail(s), cutoff)

\* aqi_category_from_pm25 with `<` in place of `<=`
aqi_category_strict(pm25_value) ==
    IF pm25_value = NonePM THEN "Unknown"
    ELSE LET v == pm25_value IN
         IF v < 120 THEN "Good"
         ELSE IF v < 354 THEN "Moderate"
         ELSE IF v < 554 THEN "Unhealthy for Sensitive Groups"
         ELSE IF v < 1504 THEN "Unhealthy"
         ELSE IF v < 2504 THEN "Very Unhealthy"
         ELSE "Hazardous"

aqi_category_from_pm25(pm25_value) ==
    IF pm25_value = NonePM THEN "Unknown"
    ELSE LET v == pm25_value IN
         IF v <= 120 THEN "Good"
         ELSE IF v <= 354 THEN "Moderate"
         ELSE IF v <= 554 THEN "Unhealthy for Sensitive Groups"
         ELSE IF v <= 1504 THEN "Unhealthy"
         ELSE IF v <= 2504 THEN "Very Unhealthy"
         ELSE "Hazardous"

\* round(temp_c * 9.0 / 5.0 + 32.0, 1) on tenths: 9/5 of a whole number of
\* tenths never ends in 5 hundredths, so rounding is to the nearest tenth
temp_f_of(temp_c) == ((18 * temp_c + 5) \div 10) + 320

\* the dict read_sensors_once returns; `id` is the identity of the dict object
Reading(id, ts, temp_c, humidity, pm1, pm25_std, pm10) ==
    [id |-> id, ts |-> ts, temp_c |-> temp_c, temp_f |-> temp_f_of(temp_c),
     humidity |-> humidity, pm1 |-> pm1, pm25 |-> pm25_std, pm10 |-> pm10,
     aqi_category |-> aqi_category_from_pm25(pm25_std)]

\* datetime.fromtimestamp(ts).isoformat(timespec="seconds")
time_iso(ts) == <<"iso", ts>>

\* the row append_to_csv writes; `of` is the identity of the reading behind it
CsvRow(r) ==
    [of |-> r.id, time_iso |-> time_iso(r.ts), temp_c |-> r.temp_c,
     temp_f |-> r.temp_f, humidity |-> r.humidity, pm1 |-> r.pm1,
     pm25 |-> r.pm25, pm10 |-> r.pm10, aqi_category |-> r.aqi_category]

\* a reading as jsonify serialises it (the copy has no identity)
JsonReading(r) ==
    [ts |-> r.ts, temp_c |-> r.temp_c, temp_f |-> r.temp_f,
     humidity |-> r.humidity, pm1 |-> r.pm1, pm25 |-> r.pm25,
     pm10 |-> r.pm10, aqi_category |-> r.aqi_category]

JsonPoints(pts) == [i \in 1..Len(pts) |-> JsonReading(pts[i])]

\* get_system_info(): host telemetry, best effort
get_system_info == [cpu_temp_f |-> None, uptime |-> "N/A", ip |-> "N/A",
                    wifi_rssi |-> None]

\* ---------------------------------------------------------------- initial
Init ==
    /\ history = <<>>
    /\ history_lock = "free"
    /\ last_row = None
    /\ pc = "read_aht"
    /\ polls = 1
    /\ aht = None
    /\ row = None
    /\ csv = [exists |-> FALSE, header |-> FALSE, rows |-> <<>>]
    /\ hpc = [h \in Handlers |-> "idle"]
    /\ hrow = [h \in Handlers |-> None]
    /\ hpts = [h \in Handlers |-> <<>>]
    /\ recorded = <<>>
    /\ committed = [history |-> <<>>, last_row |-> None]
    /\ read_ok = FALSE
    /\ read_errors = 0
    /\ csv_errors = 0

\* ------------------------------------------------------------- sensor_loop
\* read_sensors_once called inside the locked block: the lock is taken
\* before the sensors are read
ReadAHTLocked ==
    /\ pc = "read_aht"
    /\ history_lock = "free"
    /\ history_lock' = "sensor_loop"
    /\ \E t \in TempSamples, hum \in HumiditySamples :
          aht' = [temp_c |-> t, humidity |-> hum]
    /\ pc' = "read_pm"
    /\ UNCHANGED <<history, last_row, polls, row, csv, handler_vars,
                   ghost_vars>>

\* read_sensors_once: aht.temperature and aht.relative_humidity return
ReadAHT ==
    /\ pc = "read_aht"
    /\ \E t \in TempSamples, hum \in HumiditySamples :
          aht' = [temp_c |-> t, humidity |-> hum]
    /\ pc' = "read_pm"
    /\ UNCHANGED <<polls, row, csv, store_vars, handler_vars, ghost_vars>>

\* read_sensors_once: the AHT20 raises; the exception leaves the function
ReadAHTFail ==
    /\ pc = "read_aht"
    /\ read_errors + csv_errors < MaxFaults
    /\ read_errors' = read_errors + 1
    /\ pc' = "except"
    /\ UNCHANGED <<polls, aht, row, csv, store_vars, handler_vars, recorded,
                   committed, read_ok, csv_errors>>

\* read_sensors_once: pm25.read() returns and the dict is built and assigned
\* to sensor_loop's `row`
ReadPM(samples) ==
    /\ pc = "read_pm"
    /\ \E ts \in Timestamps, p1 \in PM1Samples, p25 \in samples,
          p10 \in PM10Samples :
          row' = Reading(Len(recorded) + 1, ts, aht.temp_c, aht.humidity,
                         p1, p25, p10)
    /\ aht' = None
    /\ read_ok' = TRUE
    /\ pc' = "acquire"
    /\ UNCHANGED <<polls, csv, store_vars, handler_vars, recorded, committed,
                   read_errors, csv_errors>>

\* read_sensors_once: pm25.read() raises and the read is retried at once
ReadPMFailRetry ==
    /\ pc = "read_pm"
    /\ read_errors + csv_errors < MaxFaults
    /\ read_errors' = read_errors + 1
    /\ aht' = None
    /\ pc' = "read_aht"
    /\ UNCHANGED <<polls, row, csv, store_vars, handler_vars, recorded,
                   committed, read_ok, csv_errors>>

\* read_sensors_once: pm25.read() raises; the AHT20 values are dropped
ReadPMFail ==
    /\ pc = "read_pm"
    /\ read_errors + csv_errors < MaxFaults
    /\ read_errors' = read_errors + 1
    /\ aht' = None
    /\ pc' = "except"
    /\ UNCHANGED <<polls, row, csv, store_vars, handler_vars, recorded,
                   committed, read_ok, csv_errors>>

\* sensor_loop calling append_to_csv(row) before it enters the locked block
AcquireAfterCsv ==
    /\ pc = "acquire"
    /\ history_lock = "free"
    /\ history_lock' = "sensor_loop"
    /\ csv' = [exists |-> TRUE,
               header |-> csv.header \/ ~csv.exists,
               rows |-> Append(csv.rows, CsvRow(row))]
    /\ pc' = "append"
    /\ UNCHANGED <<history, last_row, polls, aht, row, handler_vars,
                   ghost_vars>>

\* with history_lock: (enter)
Acquire ==
    /\ pc = "acquire"
    /\ history_lock = "free"
    /\ history_lock' = "sensor_loop"
    /\ pc' = "append"
    /\ UNCHANGED <<history, last_row, polls, aht, row, csv, handler_vars,
                   ghost_vars>>

\* history.append(row)
AppendRow ==
    /\ pc = "append"
    /\ history' = Append(history, row)
    /\ recorded' = Append(recorded, row)
    /\ pc' = "set_last"
    /\ UNCHANGED <<history_lock, last_row, polls, aht, row, csv, handler_vars,
                   committed, read_ok, read_errors, csv_errors>>

\* last_row = history[0]
SetLastRowOldest ==
    /\ pc = "set_last"
    /\ last_row' = Head(history)
    /\ pc' = "trim"
    /\ UNCHANGED <<history, history_lock, polls, aht, row, csv, handler_vars,
                   ghost_vars>>

\* last_row = row
SetLastRow ==
    /\ pc = "set_last"
    /\ last_row' = row
    /\ pc' = "trim"
    /\ UNCHANGED <<history, history_lock, polls, aht, row, csv, handler_vars,
                   ghost_vars>>

\* the trim that never takes effect (the filtered list is bound to a new
\* local name instead of being assigned into history[:])
TrimNothing(h, r) == h

\* the trim with the comparison turned round
TrimInverted(h, r) ==
    SelectSeq(h, LAMBDA x : x.ts <= r.ts - HISTORY_SECONDS)

\* the trim keeping only the readings strictly newer than the cutoff
TrimStrict(h, r) == SelectSeqBy(h, r.ts - HISTORY_SECONDS + 1)

\* cutoff = row["ts"] - HISTORY_SECONDS
\* history[:] = [r for r in history if r["ts"] >= cutoff]
Trim(h, r) == SelectSeqBy(h, r.ts - HISTORY_SECONDS)

\* the trim with append_to_csv(row) indented into the locked block: the lock
\* is still held when the CSV is written
TrimHistoryKeepLock ==
    /\ pc = "trim"
    /\ history' = Trim(history, row)
    /\ committed' = [history |-> history', last_row |-> last_row]
    /\ pc' = "csv"
    /\ UNCHANGED <<history_lock, last_row, polls, aht, row, csv, handler_vars,
                   recorded, read_ok, read_errors, csv_errors>>

\* the last statement of the locked block, and the lock is released
TrimHistory ==
    /\ pc = "trim"
    /\ history' = Trim(history, row)
    /\ history_lock' = "free"
    /\ committed' = [history |-> history', last_row |-> last_row]
    /\ pc' = "csv"
    /\ UNCHANGED <<last_row, polls, aht, row, csv, handler_vars, recorded,
                   read_ok, read_errors, csv_errors>>

\* append_to_csv(row) with the file opened in mode "w"
AppendToCsvTruncate ==
    /\ pc = "csv"
    /\ csv' = [exists |-> TRUE, header |-> TRUE, rows |-> <<CsvRow(row)>>]
    /\ pc' = "sleep"
    /\ UNCHANGED <<polls, aht, row, store_vars, handler_vars, ghost_vars>>

\* append_to_csv(row): the file is opened, the header is written when the
\* file did not exist, the row is written, the file is closed; sensor_loop
\* prints "Logged:" and leaves the try block
AppendToCsv ==
    /\ pc = "csv"
    /\ csv' = [exists |-> TRUE,
               header |-> csv.header \/ ~csv.exists,
               rows |-> Append(csv.rows, CsvRow(row))]
    /\ pc' = "sleep"
    /\ UNCHANGED <<polls, aht, row, store_vars, handler_vars, ghost_vars>>

\* append_to_csv(row) fails and lets the exception out to sensor_loop
AppendToCsvRaise ==
    /\ pc = "csv"
    /\ read_errors + csv_errors < MaxFaults
    /\ csv_errors' = csv_errors + 1
    /\ pc' = "except"
    /\ UNCHANGED <<polls, aht, row, csv, store_vars, handler_vars, recorded,
                   committed, read_ok, read_errors>>

\* append_to_csv(row) fails and its own except clause prints the error:
\* open() raises, or the file is opened (and so created) and nothing reaches
\* it, or the header reaches it and the row does not; the call returns, and
\* sensor_loop prints "Logged:" and leaves the try block
AppendToCsvFail ==
    /\ pc = "csv"
    /\ read_errors + csv_errors < MaxFaults
    /\ \E stage \in {"open", "header", "row"} :
          csv' = CASE stage = "open" -> csv
                   [] stage = "header" -> [csv EXCEPT !.exists = TRUE]
                   [] stage = "row" ->
                        [csv EXCEPT !.exists = TRUE,
                                    !.header = csv.header \/ ~csv.exists]
    /\ csv_errors' = csv_errors + 1
    /\ pc' = "sleep"
    /\ UNCHANGED <<polls, aht, row, store_vars, handler_vars, recorded,
                   committed, read_ok, read_errors>>

\* except Exception as e: print("Sensor read error:", e)
PrintError ==
    /\ pc = "except"
    /\ pc' = "sleep"
    /\ UNCHANGED <<polls, aht, row, csv, store_vars, handler_vars, ghost_vars>>

\* time.sleep(READ_INTERVAL_SEC), then the next iteration of `while True`;
\* the time slept shows only in the timestamp the next read draws
Sleep ==
    /\ pc = "sleep"
    /\ polls < MaxPolls
    /\ polls' = polls + 1
    /\ pc' = "read_aht"
    /\ UNCHANGED <<aht, row, csv, store_vars, handler_vars, ghost_vars>>

\* ---------------------------------------------------------------- handlers
\* Flask dispatches a GET /api/data or GET /api/history to a worker
Request(h, e) ==
    /\ hpc[h] = "idle"
    /\ hpc' = [hpc EXCEPT ![h] = e \o "_acquire"]
    /\ UNCHANGED <<hrow, hpts, csv, sensor_vars, store_vars, ghost_vars>>

\* api_data: with history_lock: (enter)
ApiDataAcquire(h) ==
    /\ hpc[h] = "data_acquire"
    /\ history_lock = "free"
    /\ history_lock' = h
    /\ hpc' = [hpc EXCEPT ![h] = "data_snapshot"]
    /\ UNCHANGED <<history, last_row, hrow, hpts, csv, sensor_vars,
                   ghost_vars>>

\* api_data: row = last_row, and the lock is released
ApiDataSnapshot(h) ==
    /\ hpc[h] = "data_snapshot"
    /\ hrow' = [hrow EXCEPT ![h] = last_row]
    /\ history_lock' = "free"
    /\ hpc' = [hpc EXCEPT ![h] = "data_respond"]
    /\ UNCHANGED <<history, last_row, hpts, csv, sensor_vars, ghost_vars>>

\* the body api_data answers with when the 503 status is left out
ApiDataResponseNo503(r) ==
    IF r = None
    THEN [status |-> 200, ok |-> FALSE, error |-> "No data yet"]
    ELSE [status |-> 200, ok |-> TRUE, data |-> JsonReading(r),
          system |-> get_system_info]

\* the body api_data answers with for its local `row`
ApiDataResponse(r) ==
    IF r = None
    THEN [status |-> 503, ok |-> FALSE, error |-> "No data yet"]
    ELSE [status |-> 200, ok |-> TRUE, data |-> JsonReading(r),
          system |-> get_system_info]

\* api_data: `if not row` answers 503, otherwise the system info is looked
\* up and the copy of the row is serialised; ApiDataResponse(hrow[h]) is
\* sent and the request is over
ApiDataRespond(h) ==
    /\ hpc[h] = "data_respond"
    /\ ApiDataResponse(hrow[h]).status \in {200, 503}
    /\ hrow' = [hrow EXCEPT ![h] = None]
    /\ hpc' = [hpc EXCEPT ![h] = "idle"]
    /\ UNCHANGED <<hpts, csv, sensor_vars, store_vars, ghost_vars>>

\* api_history entering its block without waiting for the lock
ApiHistoryNoLock(h) ==
    /\ hpc[h] = "history_acquire"
    /\ history_lock' = h
    /\ hpc' = [hpc EXCEPT ![h] = "history_snapshot"]
    /\ UNCHANGED <<history, last_row, hrow, hpts, csv, sensor_vars,
                   ghost_vars>>

\* api_history: with history_lock: (enter)
ApiHistoryAcquire(h) ==
    /\ hpc[h] = "history_acquire"
    /\ history_lock = "free"
    /\ history_lock' = h
    /\ hpc' = [hpc EXCEPT ![h] = "history_snapshot"]
    /\ UNCHANGED <<history, last_row, hrow, hpts, csv, sensor_vars,
                   ghost_vars>>

\* api_history: pts = list(history), and the lock is released
ApiHistorySnapshot(h) ==
    /\ hpc[h] = "history_snapshot"
    /\ hpts' = [hpts EXCEPT ![h] = history]
    /\ history_lock' = "free"
    /\ hpc' = [hpc EXCEPT ![h] = "history_respond"]
    /\ UNCHANGED <<history, last_row, hrow, csv, sensor_vars, ghost_vars>>

\* the body api_history answers with for its local `pts`
ApiHistoryResponse(pts) ==
    [status |-> 200, ok |-> TRUE, points |-> JsonPoints(pts)]

\* api_history: the copy is serialised; ApiHistoryResponse(hpts[h]) is sent
\* and the request is over
ApiHistoryRespond(h) ==
    /\ hpc[h] = "history_respond"
    /\ ApiHistoryResponse(hpts[h]).status = 200
    /\ hpts' = [hpts EXCEPT ![h] = <<>>]
    /\ hpc' = [hpc EXCEPT ![h] = "idle"]
    /\ UNCHANGED <<hrow, csv, sensor_vars, store_vars, ghost_vars>>

\* ----------------------------------------------------------- specification
SensorLoop ==
    \/ ReadAHT
    \/ ReadAHTFail
    \/ ReadPM(PM25Samples)
    \/ ReadPMFail
    \/ Acquire
    \/ AppendRow
    \/ SetLastRow
    \/ TrimHistory
    \/ AppendToCsv
    \/ AppendToCsvFail
    \/ PrintError
    \/ Sleep

Handler(h) ==
    \/ \E e \in Endpoints : Request(h, e)
    \/ ApiDataAcquire(h)
    \/ ApiDataSnapshot(h)
    \/ ApiDataRespond(h)
    \/ ApiHistoryAcquire(h)
    \/ ApiHistorySnapshot(h)
    \/ ApiHistoryRespond(h)

Next == SensorLoop \/ \E h \in Handlers : Handler(h)

Spec == Init /\ [][Next]_vars

TypeOK ==
    /\ history_lock \in {"free", "sensor_loop"} \cup Handlers
    /\ polls \in 1..MaxPolls
    /\ Len(history) <= Len(recorded)

\* the category function alone: one read, PM2.5 drawn from the whole range
ReadPMAnyPM25 == ReadPM(PM25Range)

NextAqi == ReadAHT \/ ReadPMAnyPM25

SpecAqi == Init /\ [][NextAqi]_vars

\* ------------------------------------------------------- property helpers
Last(s) == s[Len(s)]

IsPrefix(s, t) == Len(s) <= Len(t) /\ SubSeq(t, 1, Len(s)) = s

IsSuffix(s, t) ==
    Len(s) <= Len(t) /\ SubSeq(t, Len(t) - Len(s) + 1, Len(t)) = s

RECURSIVE IsSubseq(_, _)
\* s is t with some elements left out, the others in their order
IsSubseq(s, t) ==
    IF s = <<>> THEN TRUE
    ELSE IF t = <<>> THEN FALSE
    ELSE IF Head(s) = Head(t) THEN IsSubseq(Tail(s), Tail(t))
    ELSE IsSubseq(s, Tail(t))

TsOf(s) == [i \in 1..Len(s) |-> s[i].ts]

StrictlyIncreasing(s) == \A i \in 1..(Len(s) - 1) : s[i].ts < s[i + 1].ts

NonDecreasing(s) == \A i \in 1..(Len(s) - 1) : s[i].ts <= s[i + 1].ts

\* the readings of s inside the window that ends at the last reading of s
Window(s) ==
    IF s = <<>> THEN <<>>
    ELSE SelectSeq(s, LAMBDA r : r.ts >= Last(s).ts - HISTORY_SECONDS)

\* sensor_loop is inside `with history_lock:`
InRecord == pc \in {"append", "set_last", "trim"}

\* every recorded reading has been through its append_to_csv call
CsvCallsDone == pc \in {"sleep", "except", "read_aht", "read_pm", "acquire"}

DataSnapshotStep(h) == hpc[h] = "data_snapshot" /\ hpc'[h] = "data_respond"
HistorySnapshotStep(h) ==
    hpc[h] = "history_snapshot" /\ hpc'[h] = "history_respond"
DataRespondStep(h) == hpc[h] = "data_respond" /\ hpc'[h] = "idle"

\* ------------------------------------------------------------------ claims

\* C1: whenever sensor_loop does not hold history_lock, every reading in
\* history has ts >= (ts of the reading inserted last) - HISTORY_SECONDS,
\* whatever the timestamps and whichever polls failed.
C1_WindowBound ==
    (history_lock # "sensor_loop" /\ recorded # <<>>)
        => \A i \in 1..Len(history) :
              history[i].ts >= Last(recorded).ts - HISTORY_SECONDS

\* C1 witness: the lock is free after a poll whose timestamp did not exceed
\* the one before it and a later poll that evicted a reading.
C1_Witness ==
    /\ history_lock = "free"
    /\ Len(recorded) >= 3
    /\ Len(history) < Len(recorded)
    /\ \E i \in 1..(Len(recorded) - 1) : recorded[i + 1].ts <= recorded[i].ts

\* C2: after record steps with strictly increasing timestamps the snapshot
\* api_history takes, and the points it answers with, are exactly the
\* recorded readings with ts >= tn - HISTORY_SECONDS, in insertion order; a
\* reading exactly at the cutoff is kept.
C2_HistoryIsWindow ==
    [][\A h \in Handlers :
          (HistorySnapshotStep(h) /\ StrictlyIncreasing(recorded))
              => /\ hpts'[h] = Window(recorded)
                 /\ ApiHistoryResponse(hpts'[h]).points
                        = JsonPoints(Window(recorded))]_vars

\* C2 witness: inserts at 0, 300, 1200 with window 900; the snapshot holds
\* 300 (exactly the cutoff) and 1200, and 0 is gone.
C2_Witness ==
    \E h \in Handlers :
        /\ hpc[h] = "history_respond"
        /\ TsOf(recorded) = <<0, 300, 1200>>
        /\ TsOf(hpts[h]) = <<300, 1200>>

\* C3 as stated: whenever history_lock is free, last_row is None exactly when
\* no sensor read has ever succeeded (and then history is empty), otherwise
\* last_row is the last element of history, the last reading recorded.
C3_Original ==
    history_lock = "free"
        => /\ (last_row = None) <=> ~read_ok
           /\ last_row = None => history = <<>>
           /\ last_row # None
                => /\ history # <<>>
                   /\ last_row = Last(history)
                   /\ last_row = Last(recorded)

\* C3 amended: whenever history_lock is free, last_row is None exactly when
\* no reading has ever been recorded into history (and then history is
\* empty), otherwise last_row is the last element of history, the last
\* reading recorded.
C3_LastRowIsNewest ==
    history_lock = "free"
        => /\ (last_row = None) <=> (recorded = <<>>)
           /\ last_row = None => history = <<>>
           /\ last_row # None
                => /\ history # <<>>
                   /\ last_row = Last(history)
                   /\ last_row = Last(recorded)

\* C3 witness: the lock is free after a poll that evicted an older reading.
C3_Witness ==
    /\ history_lock = "free"
    /\ pc = "csv"
    /\ Len(recorded) >= 2
    /\ Len(history) < Len(recorded)
    /\ last_row = Last(history)

\* the (history, last_row) a record step leaves when it starts from c with r
RecordPost(c, r) ==
    [history |-> Window(Append(c.history, r)), last_row |-> r]

\* C4: every snapshot a handler takes is the (history, last_row) state
\* entirely before or entirely after the record step in flight, and in that
\* state last_row is the last element of history.
C4_SnapshotsAtomic ==
    [][LET pre == committed
           post == IF InRecord THEN RecordPost(committed, row) ELSE committed
       IN  /\ \A h \in Handlers :
                /\ DataSnapshotStep(h)
                     => hrow'[h] \in {pre.last_row, post.last_row}
                /\ HistorySnapshotStep(h)
                     => hpts'[h] \in {pre.history, post.history}
           /\ \A c \in {pre, post} :
                IF c.history = <<>> THEN c.last_row = None
                ELSE c.last_row = Last(c.history)]_vars

\* C4 witness: sensor_loop is inside a record step that has appended but not
\* yet trimmed, while both handlers wait for the lock, one per endpoint.
C4_Witness ==
    /\ pc = "trim"
    /\ Len(Trim(history, row)) < Len(history)
    /\ \E h1, h2 \in Handlers :
          hpc[h1] = "data_acquire" /\ hpc[h2] = "history_acquire"

\* C5 as stated: api_data answers 503 / ok:false / "No data yet" exactly when
\* no sensor read has succeeded before its snapshot; otherwise ok:true with
\* the most recently recorded reading.
C5_Original ==
    [][\A h \in Handlers :
          DataSnapshotStep(h)
              => LET resp == ApiDataResponse(hrow'[h])
                 IN  /\ (resp.status = 503 /\ resp.ok = FALSE
                            /\ resp.error = "No data yet") <=> ~read_ok
                     /\ read_ok
                          => /\ resp.status = 200
                             /\ resp.ok = TRUE
                             /\ resp.data = JsonReading(Last(recorded))]_vars

\* C5 amended: api_data answers 503 / ok:false / "No data yet" exactly when
\* no reading has been recorded (no record step of sensor_loop has completed)
\* before the handler takes its snapshot; once a reading has been recorded
\* every snapshot yields ok:true whose data is the most recently recorded
\* reading at snapshot time, never 503.
C5_NoDataUntilRecorded ==
    [][\A h \in Handlers :
          /\ DataSnapshotStep(h)
               => LET resp == ApiDataResponse(hrow'[h])
                  IN  /\ (resp.status = 503 /\ resp.ok = FALSE
                             /\ resp.error = "No data yet")
                            <=> (recorded = <<>>)
                      /\ recorded # <<>>
                           => /\ resp.status = 200
                              /\ resp.ok = TRUE
                              /\ resp.data = JsonReading(Last(recorded))
          /\ DataRespondStep(h)
               => (ApiDataResponse(hrow[h]).status = 503) <=> (hrow[h] = None)]_vars

\* C5 witness: one handler is about to answer 503 for the snapshot it took
\* before the first record step, another holds the snapshot of the newest of
\* two recorded readings.
C5_Witness ==
    \E h1, h2 \in Handlers :
        /\ hpc[h1] = "data_respond"
        /\ ApiDataResponse(hrow[h1]).status = 503
        /\ hpc[h2] = "data_respond"
        /\ Len(recorded) >= 2
        /\ hrow[h2] = Last(recorded)

\* the breakpoint table, upper bounds inclusive
CategoryTable(v) ==
    CASE v = NonePM -> "Unknown"
      [] v # NonePM /\ v <= 120 -> "Good"
      [] 120 < v /\ v <= 354 -> "Moderate"
      [] 354 < v /\ v <= 554 -> "Unhealthy for Sensitive Groups"
      [] 554 < v /\ v <= 1504 -> "Unhealthy"
      [] 1504 < v /\ v <= 2504 -> "Very Unhealthy"
      [] v > 2504 -> "Hazardous"

\* C6: the category read_sensors_once stores is the breakpoint-table category
\* of the PM2.5 value alone, with inclusive upper bounds, and Unknown for None.
C6_CategoryMatchesTable ==
    pc = "acquire" => row.aqi_category = CategoryTable(row.pm25)

\* C6 witness: 35.5 ug/m3, the first value above the Moderate bound.
C6_Witness ==
    /\ pc = "acquire"
    /\ row.pm25 = 355
    /\ row.aqi_category = "Unhealthy for Sensitive Groups"

\* the CSV rows of a sequence of readings
CsvRows(s) == [i \in 1..Len(s) |-> CsvRow(s[i])]

\* C7 as stated: every recorded reading is in the session CSV exactly once,
\* in recording order (once its append_to_csv call is over), and no row
\* written is rewritten or removed.
C7_Original ==
    [][/\ CsvCallsDone' => csv'.rows = CsvRows(recorded')
       /\ IsPrefix(csv.rows, csv'.rows)]_vars

\* C7 amended: every recorded reading is appended to the session CSV at most
\* once: exactly once when its append_to_csv call meets no write error, and
\* never when that call fails (the error is caught and the row is not
\* retried); the rows are in recording order and no row written is rewritten
\* or removed.  (The file is compared with the recorded readings after every
\* step that changes either.)
C7_CsvAppendOnly ==
    [][/\ (csv' # csv \/ recorded' # recorded)
             => /\ IsSubseq(csv'.rows, CsvRows(recorded'))
                /\ \A i \in 1..(Len(csv'.rows) - 1) :
                       csv'.rows[i].of < csv'.rows[i + 1].of
       /\ CsvCallsDone' => Len(csv'.rows) + csv_errors' = Len(recorded')
       /\ csv_errors' = csv_errors /\ pc = "csv" /\ pc' # "csv"
              => csv'.rows = Append(csv.rows, CsvRow(row))
       /\ csv_errors' # csv_errors => csv'.rows = csv.rows
       /\ IsPrefix(csv.rows, csv'.rows)]_vars

\* C7 witness: three readings recorded, the write of one of them failed, the
\* other two are in the file.
C7_Witness ==
    /\ pc = "sleep"
    /\ Len(recorded) = 3
    /\ csv_errors = 1
    /\ Len(csv.rows) = 2

\* C8: a failed read_sensors_once produces no reading (the local row is left
\* as it was), the iteration leaves history, last_row and the CSV unchanged,
\* the loop goes on, and the next read starts only after the sleep.
C8_FailedReadIsSkipped ==
    [][/\ (pc \in {"read_aht", "read_pm"} /\ pc' = "except")
             => /\ row' = row
                /\ aht' = None
                /\ read_ok' = read_ok
       /\ pc \in {"read_aht", "read_pm", "except", "sleep"}
             => /\ history' = history
                /\ last_row' = last_row
                /\ csv' = csv
                /\ recorded' = recorded
       /\ pc = "except" => pc' \in {"except", "sleep"}
       /\ pc = "except" => ENABLED PrintError
       /\ (pc' = "read_aht" /\ pc # "read_aht") => pc = "sleep"]_vars

\* C8 witness: a read is starting after an earlier iteration failed and
\* another one recorded a reading.
C8_Witness ==
    /\ pc = "read_aht"
    /\ recorded # <<>>
    /\ csv.rows # <<>>
    /\ polls > Len(recorded) + 1

\* C9: a failing append_to_csv returns normally: the reading just recorded
\* stays the last element of history and last_row, the rows already in the
\* file stay, and sensor_loop goes on to print, sleep and the next iteration.
C9_CsvErrorIsCaught ==
    [][/\ csv_errors' # csv_errors
             => /\ pc = "csv" /\ pc' = "sleep"
                /\ history' = history /\ last_row' = last_row
                /\ last_row' = row /\ Last(history') = row
                /\ csv'.rows = csv.rows
       /\ (pc = "sleep" /\ pc' # "sleep") => pc' = "read_aht"]_vars

\* C9 witness: the loop reached its sleep after a failing CSV write, with the
\* reading in memory and missing from the file.
C9_Witness ==
    /\ pc = "sleep"
    /\ csv_errors >= 1
    /\ last_row = row
    /\ Last(history) = row
    /\ \A i \in 1..Len(csv.rows) : csv.rows[i].of # row.id

\* a step of sensor_loop leaves the locked block
RecordDone == pc = "trim" /\ pc' = "csv"

\* C10 as stated: for any timestamps the history after a record step is a
\* suffix of (history before + the new reading), and nothing outside the
\* record step changes history or last_row.
C10_Original ==
    [][/\ RecordDone
             => IsSuffix(history', Append(committed.history, row))
       /\ ~InRecord => history' = history /\ last_row' = last_row
       /\ pc' = pc => history' = history /\ last_row' = last_row]_vars

\* C10 amended: eviction happens only inside the record step and never
\* reorders: the history after a record step is (history before + the new
\* reading) with some readings left out, it always ends with the new reading,
\* and it is a suffix (a prefix trim) whenever the timestamps of history
\* before + the new reading are non-decreasing; api_data and api_history
\* never change history or last_row.
C10_EvictionKeepsOrder ==
    [][/\ RecordDone
             => LET before == Append(committed.history, row)
                IN  /\ IsSubseq(history', before)
                    /\ history' # <<>> /\ Last(history') = row
                    /\ NonDecreasing(before) => IsSuffix(history', before)
       /\ ~InRecord => history' = history /\ last_row' = last_row
       /\ pc' = pc => history' = history /\ last_row' = last_row]_vars

\* C10 witness: a record step with non-decreasing timestamps has just evicted
\* the oldest reading and kept the two newer ones.
C10_Witness ==
    /\ pc = "csv"
    /\ NonDecreasing(recorded)
    /\ Len(recorded) = 3
    /\ history = SubSeq(recorded, 2, 3)

\* C11: in a successful iteration the reading is in history and last_row
\* before append_to_csv writes it: every row of the CSV belongs to a reading
\* already recorded, a row is written only once the record step for its
\* reading is over, and at most one recorded reading is still waiting for its
\* append_to_csv call.
C11_RecordBeforeCsv ==
    [][/\ (csv' # csv \/ recorded' # recorded)
             => /\ \A i \in 1..Len(csv'.rows) :
                      \E j \in 1..Len(recorded') :
                          csv'.rows[i] = CsvRow(recorded'[j])
                /\ Len(recorded') - (Len(csv'.rows) + csv_errors') \in {0, 1}
       /\ csv'.rows # csv.rows
             => /\ history_lock # "sensor_loop"
                /\ recorded # <<>> /\ Last(recorded) = row
                /\ last_row = row
                /\ history # <<>> /\ Last(history) = row
                /\ Last(csv'.rows) = CsvRow(row)]_vars

\* C11 witness: the second reading is in history and last_row, the lock is
\* released, and the CSV still holds only the first one.
C11_Witness ==
    /\ pc = "csv"
    /\ history_lock = "free"
    /\ Len(recorded) = 2
    /\ last_row = recorded[2]
    /\ csv.rows = <<CsvRow(recorded[1])>>

\* positions at which sensor_loop reads a sensor, writes the CSV, prints or
\* sleeps
SensorIO == {"read_aht", "read_pm", "csv", "except", "sleep"}

\* positions at which a handler waits on its socket, looks up the system
\* info or serialises and sends its response
HandlerIO == {"idle", "data_respond", "history_respond"}

\* C12: history_lock is never held across I/O: while sensor_loop holds it,
\* sensor_loop is at one of the three statements of its locked block, and
\* while a handler holds it, the handler is at the copy inside its locked
\* block; no holder is reading a sensor, writing the CSV, printing, sleeping,
\* looking up the system info or serialising a response.
C12_NoIOUnderLock ==
    /\ history_lock = "sensor_loop"
         => pc \notin SensorIO /\ pc \in {"append", "set_last", "trim"}
    /\ \A h \in Handlers :
         history_lock = h
            => /\ hpc[h] \notin HandlerIO
               /\ hpc[h] \in {"data_snapshot", "history_snapshot"}
    /\ history_lock = "free"
         => /\ pc \notin {"append", "set_last", "trim"}
            /\ \A h \in Handlers :
                  hpc[h] \notin {"data_snapshot", "history_snapshot"}

\* C12 witness: sensor_loop holds the lock at the trim while one handler
\* builds its response from an earlier snapshot and the other waits.
C12_Witness ==
    /\ history_lock = "sensor_loop"
    /\ pc = "trim"
    /\ \E h1, h2 \in Handlers :
          /\ hpc[h1] = "data_respond" /\ hrow[h1] # None
          /\ hpc[h2] = "history_acquire"

\* ------------------------------------------------- progress of the handlers
\* number of sensor reads that return before the sensor hangs for good
LiveReads == 1

\* the program with a sensor that hangs: after LiveReads readings no
\* pm25.read() returns any more, and sensor_loop stays in the read
NextLive ==
    \/ /\ SensorLoop
       /\ (pc = "read_pm" /\ pc' = "acquire") => Len(recorded) < LiveReads
    \/ \E h \in Handlers : Handler(h)

\* Fair scheduling.  A thread that holds history_lock runs on: the locked
\* blocks have no blocking call.  A handler that can go on does go on, and a
\* handler waiting for the lock gets it if the lock keeps becoming free.
\* Nothing is assumed of the sensor reads, the CSV write, the sleep and the
\* arrival of requests: a read may never return.
Fairness ==
    /\ WF_vars(AppendRow \/ SetLastRow \/ TrimHistory)
    /\ \A h \in Handlers :
          /\ SF_vars(ApiDataAcquire(h) \/ ApiHistoryAcquire(h))
          /\ WF_vars(ApiDataSnapshot(h) \/ ApiHistorySnapshot(h)
                        \/ ApiDataRespond(h) \/ ApiHistoryRespond(h))

SpecLive == Init /\ [][NextLive]_vars /\ Fairness

\* C13: under fair scheduling every api_data and api_history request gets
\* history_lock, takes its snapshot and returns, whatever sensor_loop does
\* outside its locked block, a sensor read that never returns included.
C13_RequestsReturn ==
    \A h \in Handlers : (hpc[h] # "idle") ~> (hpc[h] = "idle")

\* C13 witness: both handlers are in a request, one holding the lock and one
\* waiting for it, while sensor_loop sits in a PM sensor read that does not
\* return.
C13_Witness ==
    /\ pc = "read_pm"
    /\ Len(recorded) = LiveReads
    /\ \E h1, h2 \in Handlers :
          /\ history_lock = h1
          /\ hpc[h2] \in {"data_acquire", "history_acquire"}
====
